---- MODULE Spec2Model ----
(***************************************************************************)
(* Streaming agent engine (package agent): connection with bounded retry,  *)
(* the frame and event streams with reopen on send failure, the capture    *)
(* scheduler and the hot-swappable capture strategy.                       *)
(*                                                                         *)
(* Threads: the caller of Init (app.go startup), the callers of the        *)
(* control surface, one goroutine per launched captureLoop, and one caller *)
(* of sendEventData.  Every external call (dial, stream open, Send,        *)
(* Capture, display enumeration) answers nondeterministically.             *)
(***************************************************************************)
EXTENDS Integers, Sequences, FiniteSets

\* ---------------------------------------------------------------- constants
GRPC_CONNECT_MAX_ATTEMPTS == 5
STREAM_REOPEN_MAX_ATTEMPTS == 3

\* ------------------------------------------------------------------- bounds
\* capture loops that can be launched in one run
MaxLoops == 2
\* stream instances that the collector accepts per stream kind in one run
MaxOpens == 2
\* physical displays
MaxDisplays == 2
\* the frame interval, in clock ticks
FrameInterval == 2
\* stalls the environment induces in one run of the pacing specification
MaxStalls == 2
\* longest single stall, in clock ticks
MaxStall == 2 * FrameInterval + 1
\* callers of StartCapture / StopCapture that may be inside a call together
MaxCallers == 2

EvCaller == 0
Loops == 1 .. MaxLoops
Callers == 1 .. MaxCallers
Threads == {EvCaller} \cup Loops
Kinds == {"frameStream", "eventStream"}
Kind(t) == IF t = EvCaller THEN "eventStream" ELSE "frameStream"
NoStream == 0
NoHolder == -1

VARIABLES
  cancelled,      \* a.ctx.Done() is closed
  closeCalled,    \* Close has run
  panicked,       \* the process died on a runtime panic
  \* --- Init / connectGRPC / startStream (the thread of app.go startup)
  initPc,         \* "dial", "wait", "openFrame", "openEvent", "done"
  attempt,        \* connectGRPC's loop variable
  connResult,     \* what connectGRPC returned: "none" until it returns
  grpcConn,       \* a.grpcConn is set
  agentClient,    \* a.agentClient is set
  nDial,          \* history: dial attempts made
  nWait,          \* history: retry waits that ended on their timer
  \* --- streams
  handle,         \* [frameStream, eventStream]: 0 is nil, n the n-th instance
  nOpen,          \* stream instances created so far, per kind
  mu,             \* holder of a.mu
  spc,            \* per thread: where it is in sendFrameData / sendEventData
  sstream,        \* per thread: the local `stream`
  si,             \* per thread: reopen's loop variable i
  sent,           \* per thread: the Sends of the call in progress
  ret,            \* per thread: the error the call returned
  nReopen,        \* per thread: reopen routines entered by the call
  reopenRet,      \* per thread: what the last reopen routine returned
  nTry,           \* per thread: open attempts of the reopen in progress
  wire,           \* per stream instance: what has been sent on it so far
  \* --- capture scheduler
  captureStopCh,  \* a.captureStopCh: 0 is nil, l the channel made for loop l
  chClosed,       \* the stop channels that are closed
  stopCh,         \* per loop: the stopCh argument of its captureLoop (0 is nil)
  cpc,            \* per concurrent caller of StartCapture / StopCapture: its position
  lpc,            \* per loop: position in captureLoop
  capt,           \* per loop: the local `capt`
  err,            \* per loop: the local `err` of capt.Capture()
  imgBytes,       \* per loop: the local `imgBytes`
  frame,          \* per loop: the frame handed to sendFrameData
  now,            \* per loop: the clock, from the top of the iteration
  nextFrameTime,  \* per loop: nextFrameTime on that clock
  \* --- capture strategy
  capturer,       \* a.capturer: a reference into heap
  heap,           \* the capturer instances
  cfg,            \* *a.cfg: the Config object handed to New, stored by pointer (no copy)
  displayCount,   \* screenshot.NumActiveDisplays()
  selected,       \* the last SelectSingleMonitor call: its argument and its result
  builtIndex,     \* per capturer instance: the monitor index it was constructed with
  capMu,          \* a.capMu: "free", or "w" while a writer holds it
  \* --- pacing history
  stallsLeft,     \* stalls the environment may still induce
  stalls,         \* per loop: the stalls it went through
  nReset,         \* per loop: catch-up resets
  nBackToBack,    \* per loop: captures invoked with no pacing sleep since the previous one
  slept,          \* per loop: "yes" when a pacing sleep followed the last capture, "first" before any capture
  nErr            \* per loop: 1 once a capture failed

connVars == <<initPc, attempt, connResult, grpcConn, agentClient, nDial, nWait>>
streamVars == <<handle, nOpen, mu, spc, sstream, si, sent, ret, nReopen, reopenRet, nTry,
                wire>>
loopVars == <<lpc, capt, err, imgBytes, frame, now, nextFrameTime>>
schedVars == <<captureStopCh, chClosed, stopCh, cpc>>
stratVars == <<capturer, heap, cfg, displayCount, selected, builtIndex, capMu>>
paceVars == <<stallsLeft, stalls, nReset, nBackToBack, slept, nErr>>
lifeVars == <<cancelled, closeCalled, panicked>>
vars == <<lifeVars, connVars, streamVars, loopVars, schedVars, stratVars, paceVars>>

\* ------------------------------------------------------------ capture strategy
NoImage == [src |-> "none", display |-> 0]
NoFrame == [img |-> NoImage, isPreview |-> FALSE]
Insts == 1 .. (MaxLoops + 2)
Free == [kind |-> "free", mode |-> "", monitorIndex |-> 0]

\* capturer.go newDummyCapturer
newDummyCapturer == [kind |-> "dummy", mode |-> "", monitorIndex |-> 0]

\* capturer.go newScreenshotCapturer
newScreenshotCapturer(mode, idx) ==
  [kind |-> "screenshot", mode |-> mode, monitorIndex |-> idx]

\* the instances still referenced by a.capturer or by a loop's local capt
Referenced(c, cp) == ({c} \cup {cp[l] : l \in Loops}) \ {0}

\* a new instance is allocated where no live reference points
Alloc(c, cp) == CHOOSE i \in Insts \ Referenced(c, cp) :
                  \A j \in Insts \ Referenced(c, cp) : i <= j

\* unreferenced instances are collected
Collect(h, c, cp) == [i \in Insts |-> IF i \in Referenced(c, cp) THEN h[i] ELSE Free]

\* the constructor arguments of the instances that are left
CollectBuilt(b, c, cp) == [i \in Insts |-> IF i \in Referenced(c, cp) THEN b[i] ELSE 0]

\* ------------------------------------------------------------------- Init
\* config.go Load: the defaults
DefaultConfig == [MonitorMode |-> "single", MonitorIndex |-> 0, ForcePreview |-> FALSE]

\* config.go Load: every normalised configuration the model distinguishes
Configs == [MonitorMode : {"single", "combined"}, MonitorIndex : 0 .. MaxDisplays,
            ForcePreview : BOOLEAN]

\* grpc.go New: the strategy chosen for the host platform
NewCapturer(supported, c) ==
  IF supported THEN newScreenshotCapturer(c.MonitorMode, c.MonitorIndex)
  ELSE newDummyCapturer

\* grpc.go New, for configuration c on a host with count displays
New(c, supported, count, budget) ==
  /\ cancelled = FALSE /\ closeCalled = FALSE /\ panicked = FALSE
  /\ mu = NoHolder
  /\ spc = [t \in Threads |-> "idle"]
  /\ sstream = [t \in Threads |-> NoStream]
  /\ si = [t \in Threads |-> 1]
  /\ sent = [t \in Threads |-> <<>>]
  /\ ret = [t \in Threads |-> "none"]
  /\ nReopen = [t \in Threads |-> 0]
  /\ reopenRet = [t \in Threads |-> "none"]
  /\ nTry = [t \in Threads |-> 0]
  /\ captureStopCh = 0
  /\ chClosed = {}
  /\ stopCh = [l \in Loops |-> 0]
  /\ cpc = [k \in Callers |-> "idle"]
  /\ lpc = [l \in Loops |-> "idle"]
  /\ capt = [l \in Loops |-> 0]
  /\ err = [l \in Loops |-> "nil"]
  /\ imgBytes = [l \in Loops |-> NoImage]
  /\ frame = [l \in Loops |-> NoFrame]
  /\ now = [l \in Loops |-> 0]
  /\ nextFrameTime = [l \in Loops |-> 0]
  /\ selected = [index |-> 0, ok |-> TRUE]
  /\ capturer = 1
  /\ heap = [i \in Insts |-> IF i = 1 THEN NewCapturer(supported, c) ELSE Free]
  /\ builtIndex = [i \in Insts |-> IF i = 1 THEN NewCapturer(supported, c).monitorIndex ELSE 0]
  /\ capMu = "free"
  /\ cfg = c
  /\ displayCount = count
  /\ stallsLeft = budget
  /\ stalls = [l \in Loops |-> <<>>]
  /\ nReset = [l \in Loops |-> 0]
  /\ nBackToBack = [l \in Loops |-> 0]
  /\ slept = [l \in Loops |-> "first"]
  /\ nErr = [l \in Loops |-> 0]

\* a stream on which nothing has been sent
NoWire == [first |-> "none", inits |-> 0, hs |-> "none"]

\* stream.Send on stream s of kind k: the first message the stream carried, the
\* handshakes it carried, the result of its handshake
OnWire(w, k, s, site, ok) ==
  [w EXCEPT ![k][s] = [first |-> IF @.first = "none" THEN site ELSE @.first,
                       inits |-> IF site = "init" THEN @.inits + 1 ELSE @.inits,
                       hs |-> IF site = "init" THEN (IF ok THEN "ok" ELSE "err")
                              ELSE @.hs]]

\* app.go startup: Init is about to run
BeforeConnect ==
  /\ initPc = "dial" /\ attempt = 1 /\ connResult = "none"
  /\ nDial = 0 /\ nWait = 0
  /\ grpcConn = FALSE /\ agentClient = FALSE
  /\ handle = [k \in Kinds |-> NoStream]
  /\ nOpen = [k \in Kinds |-> 0]
  /\ wire = [k \in Kinds |-> [s \in 1 .. MaxOpens |-> NoWire]]

\* app.go startup: Init has returned after connectGRPC used up its attempts
ConnectFailed ==
  /\ initPc = "done" /\ attempt = GRPC_CONNECT_MAX_ATTEMPTS /\ connResult = "dialerr"
  /\ nDial = GRPC_CONNECT_MAX_ATTEMPTS /\ nWait = GRPC_CONNECT_MAX_ATTEMPTS
  /\ grpcConn = FALSE /\ agentClient = FALSE
  /\ handle = [k \in Kinds |-> NoStream]
  /\ nOpen = [k \in Kinds |-> 0]
  /\ wire = [k \in Kinds |-> [s \in 1 .. MaxOpens |-> NoWire]]

\* app.go startup: Init has returned with the connection made at the first dial
\* and both streams open
Streaming ==
  /\ initPc = "done" /\ attempt = 1 /\ connResult = "ok"
  /\ nDial = 1 /\ nWait = 0
  /\ grpcConn = TRUE /\ agentClient = TRUE
  /\ handle = [k \in Kinds |-> 1]
  /\ nOpen = [k \in Kinds |-> 1]
  /\ wire = [k \in Kinds |-> [s \in 1 .. MaxOpens |->
               IF s = 1 THEN [first |-> "init", inits |-> 1, hs |-> "ok"] ELSE NoWire]]

\* the agent with the default configuration on a one-display host, streaming
Init == New(DefaultConfig, TRUE, 1, 0) /\ Streaming

\* the agent as app.go startup builds it, before Init runs
InitConnect == New(DefaultConfig, TRUE, 1, 0) /\ BeforeConnect

\* an agent that could not connect, with stalls to come
InitPacing == New(DefaultConfig, TRUE, 1, MaxStalls) /\ ConnectFailed

\* an agent that could not connect, with the default configuration
InitSched == New(DefaultConfig, TRUE, 1, 0) /\ ConnectFailed

\* an agent that could not connect, for every configuration, host and display count
InitSelect ==
  \E c \in Configs, supported \in BOOLEAN, count \in 0 .. MaxDisplays :
    New(c, supported, count, 0) /\ ConnectFailed

\* ------------------------------------------------------- cancellation, waits
\* variant: a select that may take its timer although the context is cancelled
WaitBranchesTimerWins(c) == {"timer"}

\* the select of a retry wait (time.After against ctx.Done): the timer is made
\* when the select is entered and needs its whole delay, so a cancellation that
\* has fired, or fires during the wait, is the case that is ready
WaitBranches(c) == IF c THEN {"done"} ELSE {"timer"}

\* the process-level context is cancelled
Cancel ==
  /\ ~panicked /\ ~cancelled
  /\ cancelled' = TRUE
  /\ UNCHANGED <<closeCalled, panicked, connVars, streamVars, loopVars, schedVars,
                 stratVars, paceVars>>

\* -------------------------------------------------------------- connectGRPC
\* grpc.go connectGRPC: one DialContext, which fails on a cancelled context
Dial ==
  /\ ~panicked /\ initPc = "dial"
  /\ nDial' = nDial + 1
  /\ \/ /\ ~cancelled
        /\ grpcConn' = TRUE /\ agentClient' = TRUE
        /\ connResult' = "ok" /\ initPc' = "openFrame"
     \/ /\ initPc' = "wait"
        /\ UNCHANGED <<grpcConn, agentClient, connResult>>
  /\ UNCHANGED <<attempt, nWait, lifeVars, streamVars, loopVars, schedVars, stratVars,
                 paceVars>>

\* variant: a loop header that admits one attempt more
MoreAttemptsOffByOne(a) == a <= GRPC_CONNECT_MAX_ATTEMPTS

\* grpc.go connectGRPC: the loop header, attempt <= GRPC_CONNECT_MAX_ATTEMPTS
\* after attempt++
MoreAttempts(a) == a < GRPC_CONNECT_MAX_ATTEMPTS

\* grpc.go connectGRPC: the select after a failed dial, then the loop header
ConnectWait ==
  /\ ~panicked /\ initPc = "wait"
  /\ \E b \in WaitBranches(cancelled) :
       IF b = "done"
       THEN /\ connResult' = "cancelled" /\ initPc' = "done"
            /\ UNCHANGED <<attempt, nWait>>
       ELSE /\ nWait' = nWait + 1
            /\ IF MoreAttempts(attempt)
               THEN /\ attempt' = attempt + 1 /\ initPc' = "dial"
                    /\ UNCHANGED connResult
               ELSE /\ connResult' = "dialerr" /\ initPc' = "done"
                    /\ UNCHANGED attempt
  /\ UNCHANGED <<grpcConn, agentClient, nDial, lifeVars, streamVars, loopVars, schedVars,
                 stratVars, paceVars>>

\* ------------------------------------------------------------------ streams
\* grpc.go sendInitialFrame / sendInitialEvent: the handshake message
Handshake(k) ==
  IF k = "frameStream" THEN [img |-> [src |-> "nil", display |-> 0], isPreview |-> TRUE]
  ELSE "agent_init"

\* StreamFrames / StreamEvents on a.ctx: the collector may accept a new stream
CanOpen(k) == ~cancelled /\ nOpen[k] < MaxOpens

\* the payload thread t is sending
Payload(t) == IF t = EvCaller THEN "event" ELSE frame[t]

\* grpc.go reopenFrameStream / reopenEventStream, sendFrameData / sendEventData:
\* the handshake of a reopen and the retransmission are sent between a.mu.Lock()
\* and a.mu.Unlock(); the first Send of a call is made after Unlock
UnderMutex(site) == site \in {"init", "retx"}

\* one Send, as the call in progress of thread t records it
SendOf(site, s, m, ok) == [site |-> site, stream |-> s, msg |-> m, ok |-> ok]

\* variant: a handshake routine that sends nothing
InitialSentNever(h) == FALSE

\* grpc.go sendInitialFrame / sendInitialEvent: the handshake is sent on the
\* handle unless the handle is nil
InitialSent(h) == h # NoStream

\* grpc.go openFrameStream / openEventStream, called by startStream: on success
\* the stream is installed and the handshake is sent on it, its error only logged
OpenStream(k, next) ==
  /\ ~panicked
  /\ initPc = (IF k = "frameStream" THEN "openFrame" ELSE "openEvent")
  /\ initPc' = next
  /\ \/ /\ agentClient /\ CanOpen(k)
        /\ handle' = [handle EXCEPT ![k] = nOpen[k] + 1]
        /\ nOpen' = [nOpen EXCEPT ![k] = nOpen[k] + 1]
        /\ IF InitialSent(handle'[k])
           THEN \E ok \in BOOLEAN : wire' = OnWire(wire, k, handle'[k], "init", ok)
           ELSE UNCHANGED wire
     \/ UNCHANGED <<handle, nOpen, wire>>
  /\ UNCHANGED <<attempt, connResult, grpcConn, agentClient, nDial, nWait, lifeVars,
                 mu, spc, sstream, si, sent, ret, nReopen, reopenRet, nTry,
                 loopVars, schedVars, stratVars, paceVars>>

openFrameStream == OpenStream("frameStream", "openEvent")

openEventStream == OpenStream("eventStream", "done")

\* variant: a send that does not test the handle it read
StreamNilUnchecked(s) == FALSE

\* grpc.go sendFrameData / sendEventData: stream == nil
StreamNil(s) == s = NoStream

\* grpc.go sendFrameData / sendEventData: the handle is read under the mutex; a
\* nil handle makes the call return nil
SendRead(t) ==
  /\ ~panicked /\ spc[t] = "begin" /\ mu = NoHolder
  /\ sstream' = [sstream EXCEPT ![t] = handle[Kind(t)]]
  /\ IF StreamNil(handle[Kind(t)])
     THEN /\ spc' = [spc EXCEPT ![t] = "ret"]
          /\ ret' = [ret EXCEPT ![t] = "nil"]
     ELSE /\ spc' = [spc EXCEPT ![t] = "send"]
          /\ UNCHANGED ret
  /\ UNCHANGED <<handle, nOpen, mu, si, sent, nReopen, reopenRet, nTry, wire, lifeVars,
                 connVars, loopVars, schedVars, stratVars, paceVars>>

\* grpc.go sendFrameData / sendEventData: stream.Send outside the mutex
SendFirst(t) ==
  /\ ~panicked /\ spc[t] = "send"
  /\ \E ok \in BOOLEAN :
       /\ sent' = [sent EXCEPT ![t] = Append(@, SendOf("send", sstream[t], Payload(t), ok))]
       /\ wire' = OnWire(wire, Kind(t), sstream[t], "send", ok)
       /\ IF ok
          THEN /\ spc' = [spc EXCEPT ![t] = "ret"]
               /\ ret' = [ret EXCEPT ![t] = "nil"]
          ELSE /\ spc' = [spc EXCEPT ![t] = "reopen"]
               /\ UNCHANGED ret
  /\ UNCHANGED <<handle, nOpen, mu, sstream, si, nReopen, reopenRet, nTry, lifeVars,
                 connVars, loopVars, schedVars, stratVars, paceVars>>

\* variant: a reopen routine that returns with the mutex still locked
DeferredUnlockMissing(t) == t

\* grpc.go reopenFrameStream / reopenEventStream: defer a.mu.Unlock(), the holder
\* of a.mu after thread t has returned from the routine
DeferredUnlock(t) == NoHolder

\* grpc.go reopenFrameStream / reopenEventStream: a.mu.Lock() and the loop header
ReopenLock(t) ==
  /\ ~panicked /\ spc[t] = "reopen" /\ mu = NoHolder
  /\ mu' = t
  /\ si' = [si EXCEPT ![t] = 1]
  /\ nTry' = [nTry EXCEPT ![t] = 0]
  /\ nReopen' = [nReopen EXCEPT ![t] = @ + 1]
  /\ reopenRet' = [reopenRet EXCEPT ![t] = "none"]
  /\ spc' = [spc EXCEPT ![t] = "open"]
  /\ UNCHANGED <<handle, nOpen, sstream, sent, ret, wire, lifeVars, connVars, loopVars,
                 schedVars, stratVars, paceVars>>

\* grpc.go reopenFrameStream / reopenEventStream: one open attempt; on success the
\* new stream is installed, the handshake is sent and the routine returns nil
ReopenTry(t) ==
  /\ ~panicked /\ spc[t] = "open"
  /\ nTry' = [nTry EXCEPT ![t] = @ + 1]
  /\ \/ /\ CanOpen(Kind(t))
        /\ handle' = [handle EXCEPT ![Kind(t)] = nOpen[Kind(t)] + 1]
        /\ nOpen' = [nOpen EXCEPT ![Kind(t)] = @ + 1]
        /\ IF InitialSent(handle'[Kind(t)])
           THEN \E ok \in BOOLEAN :
                  /\ sent' = [sent EXCEPT ![t] = Append(@,
                               SendOf("init", handle'[Kind(t)], Handshake(Kind(t)), ok))]
                  /\ wire' = OnWire(wire, Kind(t), handle'[Kind(t)], "init", ok)
           ELSE UNCHANGED <<sent, wire>>
        /\ mu' = DeferredUnlock(t)
        /\ reopenRet' = [reopenRet EXCEPT ![t] = "nil"]
        /\ spc' = [spc EXCEPT ![t] = "retx"]
     \/ /\ spc' = [spc EXCEPT ![t] = "wait"]
        /\ UNCHANGED <<handle, nOpen, sent, wire, mu, reopenRet>>
  /\ UNCHANGED <<sstream, si, ret, nReopen, lifeVars, connVars, loopVars, schedVars,
                 stratVars, paceVars>>

\* variant: a loop header that admits one attempt more
ReopenMoreOffByOne(i) == i <= STREAM_REOPEN_MAX_ATTEMPTS

\* grpc.go reopenFrameStream / reopenEventStream: the loop header,
\* i <= STREAM_REOPEN_MAX_ATTEMPTS after i++
ReopenMore(i) == i < STREAM_REOPEN_MAX_ATTEMPTS

\* grpc.go reopenFrameStream / reopenEventStream: the select after a failed
\* attempt, then the loop header; after the last attempt the handle is set to nil.
\* The caller returns the error of its first Send when the reopen fails.
ReopenWait(t) ==
  /\ ~panicked /\ spc[t] = "wait"
  /\ \E b \in WaitBranches(cancelled) :
       IF b = "done"
       THEN /\ reopenRet' = [reopenRet EXCEPT ![t] = "ctxErr"]
            /\ mu' = DeferredUnlock(t)
            /\ spc' = [spc EXCEPT ![t] = "ret"]
            /\ ret' = [ret EXCEPT ![t] = "SendErr"]
            /\ UNCHANGED <<si, handle>>
       ELSE IF ReopenMore(si[t])
            THEN /\ si' = [si EXCEPT ![t] = @ + 1]
                 /\ spc' = [spc EXCEPT ![t] = "open"]
                 /\ UNCHANGED <<handle, mu, reopenRet, ret>>
            ELSE /\ handle' = [handle EXCEPT ![Kind(t)] = NoStream]
                 /\ reopenRet' = [reopenRet EXCEPT ![t] = "Canceled"]
                 /\ mu' = DeferredUnlock(t)
                 /\ spc' = [spc EXCEPT ![t] = "ret"]
                 /\ ret' = [ret EXCEPT ![t] = "SendErr"]
                 /\ UNCHANGED si
  /\ UNCHANGED <<nOpen, sstream, sent, nReopen, nTry, wire, lifeVars, connVars, loopVars,
                 schedVars, stratVars, paceVars>>

\* grpc.go sendFrameData / sendEventData: after a successful reopen, one Send of
\* the same payload on the current handle, under the mutex; its error is dropped
\* and the error of the first Send is returned
Retransmit(t) ==
  /\ ~panicked /\ spc[t] = "retx" /\ mu = NoHolder
  /\ IF handle[Kind(t)] # NoStream
     THEN \E ok \in BOOLEAN :
            /\ sent' = [sent EXCEPT ![t] = Append(@,
                         SendOf("retx", handle[Kind(t)], Payload(t), ok))]
            /\ wire' = OnWire(wire, Kind(t), handle[Kind(t)], "retx", ok)
     ELSE UNCHANGED <<sent, wire>>
  /\ spc' = [spc EXCEPT ![t] = "ret"]
  /\ ret' = [ret EXCEPT ![t] = "SendErr"]
  /\ UNCHANGED <<handle, nOpen, mu, sstream, si, nReopen, reopenRet, nTry, lifeVars,
                 connVars, loopVars, schedVars, stratVars, paceVars>>

\* a caller of sendEventData (the method has no caller inside the package)
EventCall ==
  /\ ~panicked /\ initPc = "done" /\ spc[EvCaller] = "idle"
  /\ spc' = [spc EXCEPT ![EvCaller] = "begin"]
  /\ UNCHANGED <<handle, nOpen, mu, sstream, si, sent, ret, nReopen, reopenRet, nTry,
                 wire, lifeVars, connVars, loopVars, schedVars, stratVars, paceVars>>

\* the call of thread t has returned to its caller: its locals are gone
Returned(t) ==
  /\ spc' = [spc EXCEPT ![t] = "idle"]
  /\ sstream' = [sstream EXCEPT ![t] = NoStream]
  /\ si' = [si EXCEPT ![t] = 1]
  /\ sent' = [sent EXCEPT ![t] = <<>>]
  /\ ret' = [ret EXCEPT ![t] = "none"]
  /\ nReopen' = [nReopen EXCEPT ![t] = 0]
  /\ reopenRet' = [reopenRet EXCEPT ![t] = "none"]
  /\ nTry' = [nTry EXCEPT ![t] = 0]

\* sendEventData has returned to its caller
EventReturn ==
  /\ ~panicked /\ spc[EvCaller] = "ret"
  /\ Returned(EvCaller)
  /\ UNCHANGED <<handle, nOpen, mu, wire, lifeVars, connVars, loopVars, schedVars, stratVars,
                 paceVars>>

\* -------------------------------------------------------- capture scheduler
\* the loop slot, and stop channel, the next launch uses
FreshLoop == CHOOSE l \in Loops : lpc[l] = "idle" /\ \A j \in Loops : lpc[j] = "idle" => l <= j

\* variant: StartCapture without its test for a running loop
RunningUnchecked == FALSE

\* capture.go StartCapture: a.captureStopCh != nil, already running
Running == captureStopCh # 0

\* capture.go StartCapture
StartCapture ==
  /\ ~panicked /\ initPc = "done"
  /\ IF Running
     THEN UNCHANGED <<captureStopCh, stopCh, lpc, now, nextFrameTime>>
     ELSE /\ \E l \in Loops : lpc[l] = "idle"
          /\ captureStopCh' = FreshLoop
          /\ stopCh' = [stopCh EXCEPT ![FreshLoop] = FreshLoop]
          /\ lpc' = [lpc EXCEPT ![FreshLoop] = "top"]
          /\ now' = [now EXCEPT ![FreshLoop] = 0]
          /\ nextFrameTime' = [nextFrameTime EXCEPT ![FreshLoop] = 0]
  /\ UNCHANGED <<chClosed, cpc, capt, err, imgBytes, frame, lifeVars, connVars, streamVars,
                 stratVars, paceVars>>

\* capture.go StopCapture; closing a closed channel panics
StopCapture ==
  /\ ~panicked /\ initPc = "done"
  /\ IF captureStopCh = 0
     THEN UNCHANGED <<captureStopCh, chClosed, panicked>>
     ELSE IF captureStopCh \in chClosed
          THEN /\ panicked' = TRUE
               /\ UNCHANGED <<captureStopCh, chClosed>>
          ELSE /\ chClosed' = chClosed \cup {captureStopCh}
               /\ captureStopCh' = 0
               /\ UNCHANGED panicked
  /\ UNCHANGED <<stopCh, cpc, cancelled, closeCalled, connVars, streamVars, loopVars,
                 stratVars, paceVars>>

\* grpc.go Close: the stop channel is closed and left in the field, the streams and
\* the connection are closed, the context is cancelled
Close ==
  /\ ~panicked /\ initPc = "done"
  /\ IF captureStopCh # 0 /\ captureStopCh \in chClosed
     THEN /\ panicked' = TRUE
          /\ UNCHANGED <<cancelled, closeCalled, chClosed>>
     ELSE /\ chClosed' = (IF captureStopCh # 0 THEN chClosed \cup {captureStopCh}
                          ELSE chClosed)
          /\ cancelled' = TRUE
          /\ closeCalled' = TRUE
          /\ UNCHANGED panicked
  /\ UNCHANGED <<captureStopCh, stopCh, cpc, connVars, streamVars, loopVars, stratVars,
                 paceVars>>

\* a channel value that nothing holds: make(chan struct{}) returns a new channel
FreshChan ==
  CHOOSE ch \in Loops :
    LET held == chClosed \cup {captureStopCh} \cup {stopCh[l] : l \in Loops}
    IN  ch \notin held /\ \A j \in Loops : j \notin held => ch <= j

\* what a step of a concurrent caller of StartCapture / StopCapture leaves alone
CallerFrame ==
  UNCHANGED <<capt, err, imgBytes, frame, cancelled, closeCalled, connVars, streamVars,
              stratVars, paceVars>>

\* capture.go StartCapture, caller c among concurrent callers: the test of the
\* field, read without any lock
StartCaptureTest(c) ==
  /\ ~panicked /\ initPc = "done" /\ cpc[c] = "idle"
  /\ cpc' = [cpc EXCEPT ![c] = IF Running THEN "idle" ELSE "make"]
  /\ UNCHANGED <<captureStopCh, chClosed, stopCh, panicked, lpc, now, nextFrameTime>>
  /\ CallerFrame

\* capture.go StartCapture: a.captureStopCh = make(chan struct{})
StartCaptureMake(c) ==
  /\ ~panicked /\ cpc[c] = "make"
  /\ \E ch \in Loops :
       ch \notin chClosed \cup {captureStopCh} \cup {stopCh[l] : l \in Loops}
  /\ captureStopCh' = FreshChan
  /\ cpc' = [cpc EXCEPT ![c] = "go"]
  /\ UNCHANGED <<chClosed, stopCh, panicked, lpc, now, nextFrameTime>>
  /\ CallerFrame

\* capture.go StartCapture: go a.captureLoop(a.captureStopCh), which reads the
\* field again for the argument of the new goroutine
StartCaptureGo(c) ==
  /\ ~panicked /\ cpc[c] = "go"
  /\ \E l \in Loops : lpc[l] = "idle"
  /\ stopCh' = [stopCh EXCEPT ![FreshLoop] = captureStopCh]
  /\ lpc' = [lpc EXCEPT ![FreshLoop] = "top"]
  /\ now' = [now EXCEPT ![FreshLoop] = 0]
  /\ nextFrameTime' = [nextFrameTime EXCEPT ![FreshLoop] = 0]
  /\ cpc' = [cpc EXCEPT ![c] = "idle"]
  /\ UNCHANGED <<captureStopCh, chClosed, panicked>>
  /\ CallerFrame

\* capture.go StopCapture, caller c among concurrent callers: the test of the field
StopCaptureTest(c) ==
  /\ ~panicked /\ initPc = "done" /\ cpc[c] = "idle"
  /\ cpc' = [cpc EXCEPT ![c] = IF captureStopCh = 0 THEN "idle" ELSE "close"]
  /\ UNCHANGED <<captureStopCh, chClosed, stopCh, panicked, lpc, now, nextFrameTime>>
  /\ CallerFrame

\* capture.go StopCapture: close(a.captureStopCh) on the value the field holds
\* now; closing a nil channel or a closed channel panics
StopCaptureClose(c) ==
  /\ ~panicked /\ cpc[c] = "close"
  /\ IF captureStopCh = 0 \/ captureStopCh \in chClosed
     THEN /\ panicked' = TRUE
          /\ UNCHANGED <<chClosed, cpc>>
     ELSE /\ chClosed' = chClosed \cup {captureStopCh}
          /\ cpc' = [cpc EXCEPT ![c] = "clear"]
          /\ UNCHANGED panicked
  /\ UNCHANGED <<captureStopCh, stopCh, lpc, now, nextFrameTime>>
  /\ CallerFrame

\* capture.go StopCapture: a.captureStopCh = nil
StopCaptureClear(c) ==
  /\ ~panicked /\ cpc[c] = "clear"
  /\ captureStopCh' = 0
  /\ cpc' = [cpc EXCEPT ![c] = "idle"]
  /\ UNCHANGED <<chClosed, stopCh, panicked, lpc, now, nextFrameTime>>
  /\ CallerFrame

\* the time a blocking call may take: none, or a stall while the environment has
\* stalls left to induce
Elapsed == {0} \cup (IF stallsLeft > 0 THEN 1 .. MaxStall ELSE {})

\* the history of the stalls loop l went through
Stalled(l, d) ==
  IF d > 0
  THEN /\ stallsLeft' = stallsLeft - 1
       /\ stalls' = [stalls EXCEPT ![l] = Append(@, d)]
  ELSE UNCHANGED <<stallsLeft, stalls>>

\* variant: a select that watches the context only
StoppingOnCancelOnly(l) == cancelled

\* capture.go captureLoop: a case of the select at the top is ready
Stopping(l) == cancelled \/ stopCh[l] \in chClosed

\* capture.go captureLoop: the select at the top of an iteration, the pacing
\* test and, when the frame is due, the snapshot of a.capturer under the read lock.
\* The clock of the loop is set to zero where time.Now() is read.
LoopTop(l) ==
  /\ ~panicked /\ lpc[l] = "top"
  /\ IF Stopping(l)
     THEN /\ lpc' = [lpc EXCEPT ![l] = "done"]
          /\ UNCHANGED <<capt, now, nextFrameTime, nBackToBack, slept>>
     ELSE /\ now' = [now EXCEPT ![l] = 0]
          /\ nextFrameTime' = [nextFrameTime EXCEPT ![l] = @ - now[l]]
          /\ IF nextFrameTime[l] - now[l] > 0
             THEN /\ lpc' = [lpc EXCEPT ![l] = "sleep"]
                  /\ UNCHANGED <<capt, nBackToBack, slept>>
             ELSE /\ capMu = "free"
                  /\ lpc' = [lpc EXCEPT ![l] = "capture"]
                  /\ capt' = [capt EXCEPT ![l] = capturer]
                  /\ nBackToBack' = [nBackToBack EXCEPT ![l] =
                                       IF slept[l] = "no" /\ @ < 3 THEN @ + 1 ELSE @]
                  /\ slept' = [slept EXCEPT ![l] = "no"]
  /\ UNCHANGED <<err, imgBytes, frame, lifeVars, connVars, streamVars, schedVars,
                 stratVars, stallsLeft, stalls, nReset, nErr>>

\* capture.go captureLoop: time.Sleep(wait), which no signal interrupts
LoopSleep(l) ==
  /\ ~panicked /\ lpc[l] = "sleep"
  /\ \E d \in Elapsed :
       /\ now' = [now EXCEPT ![l] = nextFrameTime[l] + d]
       /\ Stalled(l, d)
  /\ slept' = [slept EXCEPT ![l] = "yes"]
  /\ lpc' = [lpc EXCEPT ![l] = "top"]
  /\ UNCHANGED <<capt, err, imgBytes, frame, nextFrameTime, lifeVars, connVars,
                 streamVars, schedVars, stratVars, nReset, nBackToBack, nErr>>

\* capturer.go screenshotCapturer.Capture: the index the instance holds after the
\* call (an out-of-range index of a single-mode instance is overwritten with 0)
Captured(s, count) ==
  IF s.kind = "screenshot" /\ count # 0 /\ s.mode = "single" /\ s.monitorIndex >= count
  THEN [s EXCEPT !.monitorIndex = 0]
  ELSE s

\* capturer.go dummyCapturer.Capture, screenshotCapturer.Capture: the image
Image(s, count) ==
  IF s.kind = "dummy" THEN [src |-> "dummy", display |-> 0]
  ELSE IF count = 0 THEN [src |-> "blank", display |-> 0]
  ELSE IF s.mode = "single"
       THEN [src |-> "display", display |-> Captured(s, count).monitorIndex]
       ELSE [src |-> "combined", display |-> 0]

\* capturer.go screenshotCapturer.Capture: screenshot.CaptureRect may fail
MayFail(s, count) == s.kind = "screenshot" /\ count # 0

\* capture.go captureLoop: capt.Capture()
LoopCapture(l) ==
  /\ ~panicked /\ lpc[l] = "capture"
  /\ heap' = [heap EXCEPT ![capt[l]] = Captured(@, displayCount)]
  /\ \/ /\ err' = [err EXCEPT ![l] = "nil"]
        /\ imgBytes' = [imgBytes EXCEPT ![l] = Image(heap[capt[l]], displayCount)]
     \/ /\ MayFail(heap[capt[l]], displayCount)
        /\ err' = [err EXCEPT ![l] = "err"]
        /\ UNCHANGED imgBytes
  /\ \E d \in Elapsed :
       /\ now' = [now EXCEPT ![l] = @ + d]
       /\ Stalled(l, d)
  /\ lpc' = [lpc EXCEPT ![l] = "captured"]
  /\ UNCHANGED <<capt, frame, nextFrameTime, capturer, cfg, displayCount, selected,
                 builtIndex, capMu,
                 lifeVars, connVars, streamVars, schedVars, nReset, nBackToBack, slept,
                 nErr>>

\* capture.go computePreviewFlag: reads a.cfg and a.capturer
computePreviewFlag == cfg.ForcePreview \/ heap[capturer].kind = "dummy"

\* variant: an error path that leaves nextFrameTime as it is
CaptureFailedNoAdvance(l) ==
  /\ lpc' = [lpc EXCEPT ![l] = "top"]
  /\ nErr' = [nErr EXCEPT ![l] = 1]
  /\ UNCHANGED <<nextFrameTime, frame, spc>>

\* capture.go captureLoop: on a capture error the interval advances and the loop
\* continues
CaptureFailed(l) ==
  /\ nextFrameTime' = [nextFrameTime EXCEPT ![l] = @ + FrameInterval]
  /\ lpc' = [lpc EXCEPT ![l] = "top"]
  /\ nErr' = [nErr EXCEPT ![l] = 1]
  /\ UNCHANGED <<frame, spc>>

\* capture.go captureLoop: the frame is built and handed to sendFrameData
CaptureDone(l) ==
  /\ frame' = [frame EXCEPT ![l] = [img |-> imgBytes[l], isPreview |-> computePreviewFlag]]
  /\ spc' = [spc EXCEPT ![l] = "begin"]
  /\ lpc' = [lpc EXCEPT ![l] = "sending"]
  /\ UNCHANGED <<nextFrameTime, nErr>>

\* capture.go captureLoop: the branch on the result of capt.Capture()
LoopAfterCapture(l) ==
  /\ ~panicked /\ lpc[l] = "captured"
  /\ IF err[l] # "nil" THEN CaptureFailed(l) ELSE CaptureDone(l)
  /\ err' = [err EXCEPT ![l] = "nil"]
  /\ imgBytes' = [imgBytes EXCEPT ![l] = NoImage]
  /\ capt' = [capt EXCEPT ![l] = 0]
  /\ heap' = Collect(heap, capturer, capt')
  /\ builtIndex' = CollectBuilt(builtIndex, capturer, capt')
  /\ UNCHANGED <<now, capturer, cfg, displayCount, selected, capMu, lifeVars, connVars, handle,
                 nOpen, mu, wire,
                 sstream, si, sent, ret, nReopen, reopenRet, nTry, schedVars,
                 stallsLeft, stalls, nReset, nBackToBack, slept>>

\* variant: no catch-up reset
AdvanceNoCatchUp(next, t) == next + FrameInterval

\* variant: a catch-up reset to the current time itself
AdvanceResetToNow(next, t) ==
  IF t - (next + FrameInterval) > FrameInterval THEN t ELSE next + FrameInterval

\* capture.go captureLoop: nextFrameTime after a frame was sent at time t
Advance(next, t) ==
  IF t - (next + FrameInterval) > FrameInterval
  THEN t + FrameInterval
  ELSE next + FrameInterval

\* capture.go captureLoop: sendFrameData has returned; nextFrameTime advances and
\* is reset when the loop is more than one interval late
LoopAdvance(l) ==
  /\ ~panicked /\ lpc[l] = "sending" /\ spc[l] = "ret"
  /\ Returned(l)
  /\ \E d \in Elapsed :
       /\ now' = [now EXCEPT ![l] = @ + d]
       /\ Stalled(l, d)
       /\ nextFrameTime' = [nextFrameTime EXCEPT ![l] = Advance(@, now[l] + d)]
       /\ nReset' = [nReset EXCEPT ![l] =
                       IF nextFrameTime'[l] # nextFrameTime[l] + FrameInterval /\ @ < 3
                       THEN @ + 1 ELSE @]
  /\ frame' = [frame EXCEPT ![l] = NoFrame]
  /\ lpc' = [lpc EXCEPT ![l] = "top"]
  /\ UNCHANGED <<capt, err, imgBytes, handle, nOpen, mu, wire, lifeVars, connVars, schedVars,
                 stratVars, nBackToBack, slept, nErr>>

\* ------------------------------------------------------ monitor selection
\* variant: an upper limit that admits the display count itself
ValidIndexOffByOne(index, count) == ~(index < 0 \/ index > count)

\* capturer.go SelectSingleMonitor: the index names one of count displays
ValidIndex(index, count) == ~(index < 0 \/ index >= count)

\* capturer.go SelectSingleMonitor / SetCombinedMode: a.capMu.Lock()
CapLock ==
  /\ ~panicked /\ initPc = "done"
  /\ capMu = "free"
  /\ capMu' = "w"
  /\ UNCHANGED <<capturer, heap, cfg, displayCount, selected, builtIndex, schedVars,
                 lifeVars, connVars, streamVars, loopVars, paceVars>>

\* capturer.go SelectSingleMonitor, under the write lock of capMu, which the
\* return releases
SelectSingleMonitor(index) ==
  /\ ~panicked /\ initPc = "done"
  /\ capMu = "w"
  /\ capMu' = "free"
  /\ IF ~ValidIndex(index, displayCount)
     THEN /\ selected' = [index |-> index, ok |-> FALSE]
          /\ UNCHANGED <<capturer, heap, cfg, builtIndex>>
     ELSE /\ cfg' = [cfg EXCEPT !.MonitorMode = "single", !.MonitorIndex = index]
          /\ capturer' = Alloc(capturer, capt)
          /\ heap' = Collect([heap EXCEPT ![capturer'] = newScreenshotCapturer("single", index)],
                             capturer', capt)
          /\ builtIndex' = CollectBuilt([builtIndex EXCEPT ![capturer'] = index],
                                        capturer', capt)
          /\ selected' = [index |-> index, ok |-> TRUE]
  /\ UNCHANGED <<displayCount, schedVars, lifeVars, connVars, streamVars,
                 loopVars, paceVars>>

\* capturer.go SetCombinedMode, under the write lock of capMu, which the return
\* releases
SetCombinedMode ==
  /\ ~panicked /\ initPc = "done"
  /\ capMu = "w"
  /\ capMu' = "free"
  /\ cfg' = [cfg EXCEPT !.MonitorMode = "combined"]
  /\ capturer' = Alloc(capturer, capt)
  /\ heap' = Collect([heap EXCEPT ![capturer'] = newScreenshotCapturer("combined", 0)],
                     capturer', capt)
  /\ builtIndex' = CollectBuilt([builtIndex EXCEPT ![capturer'] = 0], capturer', capt)
  /\ UNCHANGED <<displayCount, selected, schedVars, lifeVars, connVars, streamVars,
                 loopVars, paceVars>>

\* a display is plugged in or removed: screenshot.NumActiveDisplays() changes
DisplayChange ==
  /\ ~panicked
  /\ \E c \in 0 .. MaxDisplays : c # displayCount /\ displayCount' = c
  /\ UNCHANGED <<capturer, heap, cfg, selected, builtIndex, capMu, lifeVars, connVars,
                 streamVars, loopVars, schedVars, paceVars>>

\* ----------------------------------------------------------- specifications
ConnectSteps == Dial \/ ConnectWait \/ openFrameStream \/ openEventStream

\* thread t inside sendFrameData / sendEventData
SendStep(t) ==
  SendRead(t) \/ SendFirst(t) \/ ReopenLock(t) \/ ReopenTry(t) \/ ReopenWait(t)
    \/ Retransmit(t)

\* the goroutine of capture loop l
LoopStep(l) ==
  LoopTop(l) \/ LoopSleep(l) \/ LoopCapture(l) \/ LoopAfterCapture(l) \/ LoopAdvance(l)

\* the streaming agent: the scheduler and its capture loops sending frames
Next ==
  \/ Cancel
  \/ Close
  \/ StartCapture
  \/ StopCapture
  \/ \E l \in Loops : LoopStep(l)
  \/ \E l \in Loops : SendStep(l)

Spec == Init /\ [][Next]_vars

\* the streaming agent with one capture loop and the event sender
NextStreams ==
  \/ Cancel
  \/ StartCapture
  \/ \E l \in Loops : LoopStep(l)
  \/ \E t \in Threads : SendStep(t)
  \/ EventCall
  \/ EventReturn

SpecStreams == Init /\ [][NextStreams]_vars

\* Init with its retries, then the event sender
NextConnect ==
  \/ ConnectSteps
  \/ Cancel
  \/ SendStep(EvCaller)
  \/ EventCall
  \/ EventReturn

SpecConnect == InitConnect /\ [][NextConnect]_vars

\* Init with its retries, then one capture loop and the event sender
NextAgent == ConnectSteps \/ NextStreams

SpecAgent == InitConnect /\ [][NextAgent]_vars

\* grpc.go Init returned at the connect error: startStream was not called
Degraded == initPc = "done" /\ connResult \in {"dialerr", "cancelled"}

\* Init with its retries; when the connect has failed, the scheduler, its capture
\* loops and the event sender
NextDegraded ==
  \/ ConnectSteps
  \/ Cancel
  \/ /\ connResult # "ok"
     /\ \/ StartCapture
        \/ StopCapture
        \/ Close
        \/ \E l \in Loops : LoopStep(l)
        \/ \E t \in Threads : SendRead(t)
        \/ EventCall
        \/ EventReturn

SpecDegraded == InitConnect /\ [][NextDegraded]_vars

\* one capture loop under stalls, in an agent whose streams are disabled
NextPacing ==
  \/ Cancel
  \/ StartCapture
  \/ \E l \in Loops : LoopStep(l)
  \/ \E l \in Loops : SendRead(l)

SpecPacing == InitPacing /\ [][NextPacing]_vars

\* the scheduler and its capture loops, in an agent whose streams are disabled
NextSched ==
  \/ Cancel
  \/ Close
  \/ StartCapture
  \/ StopCapture
  \/ \E l \in Loops : LoopStep(l)
  \/ \E l \in Loops : SendRead(l)

SpecSched == InitSched /\ [][NextSched]_vars

\* concurrent callers of StartCapture / StopCapture and the capture loops, in an
\* agent whose streams are disabled
NextCallers ==
  \/ \E c \in Callers :
       \/ StartCaptureTest(c) \/ StartCaptureMake(c) \/ StartCaptureGo(c)
       \/ StopCaptureTest(c) \/ StopCaptureClose(c) \/ StopCaptureClear(c)
  \/ \E l \in Loops : LoopStep(l)
  \/ \E l \in Loops : SendRead(l)

SpecCallers == InitSched /\ [][NextCallers]_vars

\* the streaming agent with one capture loop, which takes the read lock of
\* a.capMu and then a.mu, and a caller of SetCombinedMode
NextLocks ==
  \/ Cancel
  \/ StartCapture
  \/ \E l \in Loops : LoopStep(l)
  \/ \E l \in Loops : SendStep(l)
  \/ CapLock
  \/ SetCombinedMode

\* the loop and the caller of SetCombinedMode keep being scheduled
FairLocks ==
  /\ \A l \in Loops : WF_vars(SendStep(l))
  /\ WF_vars(SetCombinedMode)

LiveLocks == Init /\ [][NextLocks]_vars /\ FairLocks

\* one capture loop and the monitor selection, in an agent whose streams are disabled
NextSelect ==
  \/ StartCapture
  \/ \E l \in Loops : LoopStep(l)
  \/ \E l \in Loops : SendRead(l)
  \/ CapLock
  \/ \E index \in -1 .. MaxDisplays : SelectSingleMonitor(index)
  \/ SetCombinedMode
  \/ DisplayChange

SpecSelect == InitSelect /\ [][NextSelect]_vars

\* the scheduler where the goroutine of every loop keeps being scheduled: its
\* pacing sleep, its Capture and its sendFrameData call return
Fairness == \A l \in Loops : WF_vars(LoopStep(l)) /\ WF_vars(SendRead(l))

LiveSched == InitSched /\ [][NextSched]_vars /\ Fairness

\* ------------------------------------------------------------------- claims
\* C1: when the first Send of a sendFrameData / sendEventData call failed and the
\* reopen that followed succeeded, the call has made exactly one retransmission,
\* of the same payload, on the stream the reopen installed, has entered no second
\* reopen, and returns the error of the first Send.
C1_RetransmitOnce ==
  \A t \in Threads :
    (spc[t] = "ret" /\ reopenRet[t] = "nil") =>
      /\ Len(sent[t]) = 3
      /\ sent[t][1].site = "send" /\ ~sent[t][1].ok
      /\ sent[t][2].site = "init"
      /\ sent[t][3].site = "retx"
      /\ sent[t][3].msg = sent[t][1].msg
      /\ sent[t][3].stream = sent[t][2].stream
      /\ sent[t][3].stream # sent[t][1].stream
      /\ nReopen[t] = 1
      /\ ret[t] = "SendErr"

\* C2: a send call that finds the handle nil after a reopen ran out of attempts
\* tries to reopen the stream.
C2_ReopenAtNextSend ==
  \A t \in Threads :
    (spc[t] = "ret" /\ sstream[t] = NoStream /\ nOpen[Kind(t)] > 0) => nReopen[t] >= 1

\* C3: connect dials at most GRPC_CONNECT_MAX_ATTEMPTS times, with a full retry
\* wait between two consecutive dials; it installs the connection and the RPC
\* client exactly when a dial succeeded and dials no more once it has returned;
\* when every dial fails and nothing is cancelled it returns the dial error
\* after exactly GRPC_CONNECT_MAX_ATTEMPTS dials.
C3_ConnectBounded ==
  /\ [](/\ nDial <= GRPC_CONNECT_MAX_ATTEMPTS
        /\ nDial <= nWait + 1
        /\ (grpcConn /\ agentClient) <=> connResult = "ok"
        /\ grpcConn <=> agentClient
        /\ connResult = "dialerr" => nDial = GRPC_CONNECT_MAX_ATTEMPTS)
  /\ [][/\ connResult # "none" => nDial' = nDial /\ connResult' = connResult
        /\ nDial' # nDial => nDial' = nDial + 1 /\ nWait >= nDial]_vars

\* every dial failed: connect returned the error after the fifth dial
C3_Witness ==
  /\ connResult = "dialerr" /\ nDial = GRPC_CONNECT_MAX_ATTEMPTS
  /\ ~cancelled /\ ~grpcConn

\* C4: when the context is cancelled while connect is in a retry wait, connect
\* returns the cancellation error with no further dial and leaves the connection
\* and the RPC client unset; the dial error is returned only after the last of
\* the GRPC_CONNECT_MAX_ATTEMPTS dials, with no cancellation.
C4_CancelDuringConnectWait ==
  /\ [][(initPc = "wait" /\ cancelled /\ initPc' # "wait")
          => /\ connResult' = "cancelled" /\ initPc' = "done"
             /\ nDial' = nDial
             /\ ~grpcConn' /\ ~agentClient']_vars
  /\ [](connResult = "cancelled" => ~grpcConn /\ ~agentClient)
  /\ [][connResult' = "cancelled" => nDial' = nDial]_vars
  /\ [][(connResult = "none" /\ connResult' = "dialerr")
          => nDial = GRPC_CONNECT_MAX_ATTEMPTS /\ ~cancelled]_vars

\* connect was cancelled in the wait after its second dial
C4_Witness ==
  /\ connResult = "cancelled" /\ nDial = 2 /\ nWait = 1
  /\ ~grpcConn /\ ~agentClient

\* C5: a reopen routine makes at most STREAM_REOPEN_MAX_ATTEMPTS open attempts;
\* it returns success at its first successful attempt, with the new stream
\* installed as the handle; it sets the handle to nil and returns an error after
\* STREAM_REOPEN_MAX_ATTEMPTS failed attempts with no cancellation; a
\* cancellation during the wait between attempts makes it return the
\* cancellation error with no further attempt and the handle as it was.
C5_ReopenBounded ==
  /\ [](\A t \in Threads : nTry[t] <= STREAM_REOPEN_MAX_ATTEMPTS)
  /\ [][\A t \in Threads :
          /\ (nTry'[t] # nTry[t] /\ nTry'[t] # 0)
               => /\ spc[t] = "open" /\ reopenRet[t] = "none"
                  /\ nTry'[t] = nTry[t] + 1
          /\ (reopenRet[t] = "none" /\ reopenRet'[t] = "nil")
               => /\ spc[t] = "open"
                  /\ nOpen'[Kind(t)] = nOpen[Kind(t)] + 1
                  /\ handle'[Kind(t)] = nOpen'[Kind(t)]
                  /\ mu' = NoHolder
          /\ (reopenRet[t] = "none" /\ reopenRet'[t] = "Canceled")
               => /\ nTry[t] = STREAM_REOPEN_MAX_ATTEMPTS /\ nTry'[t] = nTry[t]
                  /\ ~cancelled
                  /\ nOpen' = nOpen
                  /\ handle'[Kind(t)] = NoStream
                  /\ mu' = NoHolder
          /\ (spc[t] = "wait" /\ cancelled /\ spc'[t] # "wait")
               => /\ reopenRet'[t] = "ctxErr"
                  /\ nTry'[t] = nTry[t]
                  /\ handle' = handle /\ nOpen' = nOpen
                  /\ mu' = NoHolder
          /\ (reopenRet[t] = "none" /\ reopenRet'[t] = "ctxErr")
               => spc[t] = "wait" /\ cancelled]_vars

\* the reopen of the event stream ran out of attempts while the reopen of the
\* frame stream succeeded at its second attempt
C5_Witness ==
  /\ reopenRet[EvCaller] = "Canceled" /\ nTry[EvCaller] = STREAM_REOPEN_MAX_ATTEMPTS
  /\ handle["eventStream"] = NoStream
  /\ \E l \in Loops : reopenRet[l] = "nil" /\ nTry[l] = 2 /\ handle["frameStream"] = 2

\* C6: while Close has not run, StartCapture and StopCapture make a two-state
\* machine: a loop is launched only in Stopped (no stop channel in the field),
\* on a channel that was never closed, one loop at a time, and its channel is
\* stored in the field; in Running the field only changes by StopCapture, which
\* closes that channel and clears the field; in Stopped no channel is closed;
\* nothing panics; and the loops launched and not signalled are exactly one in
\* Running and none in Stopped.
C6_TwoStateScheduler ==
  /\ [](~closeCalled =>
         /\ ~panicked
         /\ Cardinality({l \in Loops : lpc[l] # "idle" /\ l \notin chClosed})
              = (IF captureStopCh # 0 THEN 1 ELSE 0)
         /\ captureStopCh # 0 =>
              lpc[captureStopCh] # "idle" /\ captureStopCh \notin chClosed)
  /\ [][~closeCalled' =>
         /\ \A l \in Loops :
              (lpc[l] = "idle" /\ lpc'[l] # "idle") =>
                /\ captureStopCh = 0 /\ captureStopCh' = l
                /\ l \notin chClosed /\ chClosed' = chClosed
                /\ lpc'[l] = "top"
                /\ \A j \in Loops \ {l} : lpc'[j] = lpc[j]
         /\ captureStopCh # 0 => captureStopCh' \in {captureStopCh, 0}
         /\ (captureStopCh # 0 /\ captureStopCh' = 0) =>
              chClosed' = chClosed \cup {captureStopCh}
         /\ captureStopCh = 0 => chClosed' = chClosed
         /\ captureStopCh' # captureStopCh =>
              \A l \in Loops : lpc[l] # "idle" => lpc'[l] = lpc[l]]_vars

\* start, stop, start: the second loop is the one running scheduler while the
\* first, signalled, has not yet ended
C6_Witness ==
  /\ ~closeCalled /\ ~cancelled
  /\ captureStopCh = 2 /\ chClosed = {1}
  /\ lpc[1] \notin {"idle", "done"} /\ lpc[2] \notin {"idle", "done"}

\* C7: SelectSingleMonitor(index) reports success exactly when
\* 0 <= index < display count at the call; on success a.capturer is a new
\* single-mode instance bound to index and the agent's configuration records
\* the mode and the index; on an invalid index the active strategy, its
\* instances and the recorded mode and index are as before; and a tick captures
\* with the strategy that is active at its top.
C7_SelectSingleValidity ==
  /\ [][(selected' # selected \/ (capturer' # capturer /\ cfg'.MonitorMode = "single")) =>
          LET i == selected'.index IN
            /\ selected'.ok <=> (0 <= i /\ i < displayCount)
            /\ selected'.ok =>
                 /\ capturer' # capturer
                 /\ capturer' \notin {capt[l] : l \in Loops}
                 /\ heap'[capturer'] = [kind |-> "screenshot", mode |-> "single",
                                        monitorIndex |-> i]
                 /\ cfg'.MonitorMode = "single" /\ cfg'.MonitorIndex = i
            /\ ~selected'.ok =>
                 capturer' = capturer /\ heap' = heap /\ cfg' = cfg]_vars
  /\ [][\A l \in Loops :
          (lpc[l] = "top" /\ lpc'[l] = "capture") => capt'[l] = capturer]_vars

\* the index equal to the display count was refused and a tick is capturing
\* with the strategy that was active before
C7_Witness ==
  /\ ~selected.ok /\ selected.index = displayCount /\ displayCount > 0
  /\ \E l \in Loops : lpc[l] = "capture" /\ capt[l] = capturer

\* C8: a loop that is at the top of an iteration with its stop channel closed or
\* the context cancelled goes nowhere but to its end, a loop that has ended
\* neither captures nor sends again, and every launched loop whose signal has
\* fired eventually ends (or the process has died).
C8_StopsAfterSignal ==
  /\ [][\A l \in Loops :
          /\ (lpc[l] = "top" /\ (cancelled \/ l \in chClosed)) => lpc'[l] \in {"top", "done"}
          /\ lpc[l] = "done" => lpc'[l] = "done" /\ spc'[l] = spc[l] /\ sent'[l] = sent[l]]_vars
  /\ \A l \in Loops :
        (lpc[l] \notin {"idle", "done"} /\ (cancelled \/ l \in chClosed))
          ~> (lpc[l] = "done" \/ panicked)

\* a loop has ended on its stop channel, with the context not cancelled
C8_Witness ==
  \E l \in Loops : lpc[l] = "done" /\ l \in chClosed /\ ~cancelled /\ ~panicked

C10_CaptureErrorContinues ==
  /\ [][\A l \in Loops :
          (lpc[l] = "captured" /\ err[l] = "err" /\ lpc'[l] # "captured") =>
            /\ lpc'[l] = "top"
            /\ nextFrameTime'[l] = nextFrameTime[l] + FrameInterval
            /\ spc'[l] = "idle" /\ spc[l] = "idle"
            /\ frame'[l] = NoFrame /\ sent' = sent
            /\ captureStopCh' = captureStopCh /\ chClosed' = chClosed
            /\ ~panicked']_vars
  /\ [][\A l \in Loops :
          (lpc[l] # "done" /\ lpc'[l] = "done") =>
            lpc[l] = "top" /\ (cancelled \/ l \in chClosed)]_vars

\* after a capture error the loop has captured again and is sending the frame
C10_Witness ==
  \E l \in Loops : nErr[l] = 1 /\ lpc[l] = "sending" /\ frame[l] # NoFrame /\ ~cancelled

\* C11: every frame whose image bytes were produced by the dummy strategy is
\* sent with isPreview = TRUE, whatever SelectSingleMonitor and SetCombinedMode
\* do while the tick is in flight.
C11_DummyFramesArePreview ==
  \A l \in Loops :
    (lpc[l] = "sending" /\ frame[l].img.src = "dummy") => frame[l].isPreview

\* C14: a single-mode screenshot strategy constructed with index i captures, at
\* every capture with a non-zero display count c, display i when i < c and
\* display 0 when i >= c, the decision being taken against the count at that
\* capture, whatever display-count changes came before.
C14_SingleCapturesBuiltIndex ==
  [][\A l \in Loops :
       ( /\ lpc[l] = "capture" /\ lpc'[l] = "captured" /\ err'[l] = "nil"
         /\ heap[capt[l]].kind = "screenshot" /\ heap[capt[l]].mode = "single"
         /\ displayCount # 0 )
       => imgBytes'[l] =
            [src |-> "display",
             display |-> IF builtIndex[capt[l]] < displayCount
                         THEN builtIndex[capt[l]] ELSE 0]]_vars

\* C15: a strategy instance is immutable once constructed: the monitor index an
\* existing instance holds is the one it was constructed with.
C15_InstancesImmutable ==
  \A i \in Insts :
    heap[i].kind = "screenshot" => heap[i].monitorIndex = builtIndex[i]

\* C16: the Config object handed to the agent at construction keeps the
\* MonitorMode and MonitorIndex it had at startup, whatever SelectSingleMonitor
\* and SetCombinedMode calls are made.
C16_ConfigNeverMutated ==
  [][cfg'.MonitorMode = cfg.MonitorMode /\ cfg'.MonitorIndex = cfg.MonitorIndex]_vars

\* C19: every read of the active-strategy reference the scheduler makes during
\* a tick is made under the strategy read lock, so no writer holds capMu at
\* the read: neither at the snapshot nor at the read of computePreviewFlag.
C19_StrategyReadsUnderReadLock ==
  [][\A l \in Loops :
       ( \/ lpc[l] = "top" /\ lpc'[l] = "capture"
         \/ lpc[l] = "captured" /\ lpc'[l] = "sending" )
       => capMu = "free"]_vars

C13_DegradedAfterConnectFailure ==
  /\ [](Degraded =>
         /\ ~grpcConn /\ ~agentClient
         /\ ~closeCalled => ~panicked
         /\ \A k \in Kinds :
              /\ handle[k] = NoStream /\ nOpen[k] = 0
              /\ \A s \in 1 .. MaxOpens : wire[k][s] = NoWire
         /\ \A t \in Threads :
              /\ spc[t] \in {"idle", "begin", "ret"}
              /\ spc[t] = "ret" => ret[t] = "nil"
              /\ sent[t] = <<>> /\ nReopen[t] = 0 /\ nTry[t] = 0)
  /\ [][Degraded =>
         /\ Degraded'
         /\ nDial' = nDial /\ nWait' = nWait
         /\ (captureStopCh = 0 /\ captureStopCh' # 0) =>
              lpc[captureStopCh'] = "idle" /\ lpc'[captureStopCh'] = "top"
         /\ (captureStopCh # 0 /\ captureStopCh' = 0) =>
              captureStopCh \in chClosed']_vars

\* after the connect was given up, a loop was started and stopped and a second
\* loop, started after it, has had a frame's send return nil with nothing sent
C13_Witness ==
  /\ connResult = "dialerr" /\ nDial = GRPC_CONNECT_MAX_ATTEMPTS /\ ~closeCalled
  /\ chClosed # {} /\ captureStopCh # 0 /\ captureStopCh \notin chClosed
  /\ spc[captureStopCh] = "ret" /\ ret[captureStopCh] = "nil"
  /\ frame[captureStopCh] # NoFrame /\ sent[captureStopCh] = <<>>

\* C17: every access to a stream handle is made with the stream mutex held: a
\* handle is written only by a thread that holds a.mu, and Close, which reads
\* both handles, runs only when no other thread holds a.mu.
C17_HandlesUnderMutex ==
  [][ /\ handle' # handle => mu # NoHolder
      /\ (closeCalled' /\ ~closeCalled) => mu = NoHolder ]_vars

\* C18: no Send and no retry wait is made while the stream mutex is held: every
\* Send a call makes is outside Lock / Unlock, and a thread in the retry wait of
\* a reopen does not hold a.mu.
C18_NoSendOrWaitUnderMutex ==
  /\ [](\A t \in Threads : spc[t] = "wait" => mu # t)
  /\ [][\A t \in Threads :
          Len(sent'[t]) > Len(sent[t]) => ~UnderMutex(sent'[t][Len(sent'[t])].site)]_vars

\* C20: a cancellation that fires while a thread is in the connect retry wait,
\* in a reopen retry wait or in the pacing sleep ends that wait: the connect
\* returns the cancellation error, the reopen returns the context error, and the
\* pacing sleep ends before its timer expires.
C20_WaitsEndOnCancellation ==
  [][ /\ (initPc = "wait" /\ cancelled /\ initPc' # "wait") => connResult' = "cancelled"
      /\ \A t \in Threads :
           (spc[t] = "wait" /\ cancelled /\ spc'[t] # "wait") => reopenRet'[t] = "ctxErr"
      /\ \A l \in Loops :
           (lpc[l] = "sleep" /\ cancelled /\ lpc'[l] # "sleep")
             => now'[l] < nextFrameTime[l] ]_vars

\* C21: at the end of every iteration that captured successfully, nextFrameTime
\* is advanced by one frame interval and, exactly when the current time is more
\* than one frame interval past the advanced value, reset to the current time
\* plus one frame interval; after such an iteration nextFrameTime is never more
\* than one frame interval behind the current time.
C21_AdvanceThenReset ==
  [][\A l \in Loops :
       (lpc[l] = "sending" /\ lpc'[l] = "top") =>
         /\ nextFrameTime'[l] =
              (IF now'[l] - (nextFrameTime[l] + FrameInterval) > FrameInterval
               THEN now'[l] + FrameInterval
               ELSE nextFrameTime[l] + FrameInterval)
         /\ now'[l] - nextFrameTime'[l] <= FrameInterval]_vars

\* an iteration without a capture error has just ended with the reset: the next
\* frame is due one frame interval from now
C21_Witness ==
  \E l \in Loops :
    /\ lpc[l] = "top" /\ nErr[l] = 0 /\ nReset[l] = 1
    /\ now[l] > 2 * FrameInterval
    /\ nextFrameTime[l] = now[l] + FrameInterval

\* C22: at every moment at most one capture loop is alive (launched and not
\* yet returned), whatever StartCapture / StopCapture calls are made.
C22_AtMostOneLoopAlive ==
  Cardinality({l \in Loops : lpc[l] \notin {"idle", "done"}}) <= 1

\* C23: under every interleaving of concurrent StartCapture and StopCapture
\* calls, every capture loop that has been launched and not yet signalled to
\* stop has its stop channel stored in a.captureStopCh.
C23_LiveLoopsInField ==
  \A l \in Loops :
    (lpc[l] \notin {"idle", "done"} /\ stopCh[l] \notin chClosed)
      => captureStopCh = stopCh[l]

\* C24: for every sequence of StartCapture, StopCapture and Close calls no
\* stop channel is closed twice: no call closes a channel that is already
\* closed, so nothing panics.
C24_ClosedAtMostOnce == ~panicked

\* C25: the engine cannot deadlock on its two locks: the thread that holds the
\* stream mutex is inside a reopen routine, at no point where it takes the
\* stream mutex again or the strategy lock; a loop takes the strategy read lock
\* holding no stream mutex; and every lock that is taken is released, on the
\* success, cancellation and exhaustion returns of the reopen routines alike.
C25_NoDeadlockOnLocks ==
  /\ [](\A t \in Threads :
          mu = t => /\ spc[t] \in {"open", "wait"}
                    /\ t \in Loops => lpc[t] = "sending")
  /\ [][\A l \in Loops :
          (lpc[l] = "top" /\ lpc'[l] = "capture") => mu # l /\ capMu = "free"]_vars
  /\ [][\A t \in Threads :
          (mu = t /\ spc[t] = "wait" /\ spc'[t] = "ret") => mu' = NoHolder]_vars
  /\ \A t \in Threads : (mu = t) ~> (mu # t)
  /\ (capMu = "w") ~> (capMu = "free")

\* a reopen gave up after its last attempt and returned with the mutex free,
\* while the caller of the selection holds the strategy write lock
C25_Witness ==
  \E t \in Threads :
    /\ spc[t] = "ret" /\ reopenRet[t] = "Canceled" /\ nTry[t] = STREAM_REOPEN_MAX_ATTEMPTS
    /\ mu = NoHolder /\ capMu = "w"

====
